---- MODULE Spec2Model ----
(***************************************************************************)
(* Model of src/modules/orm.py: the active-record layer (Model), its       *)
(* per-instance SQLiteConnection and ModelCollection.get_the_most_recent,  *)
(* over one SQLite database file.                                          *)
(*                                                                         *)
(* The database is modelled by what SQLite does with the statements the    *)
(* code builds: the catalog (sqlite_master), the declared column types and *)
(* their affinity, rowid assignment for "integer primary key", and the     *)
(* per-connection last_insert_rowid().                                     *)
(***************************************************************************)
EXTENDS Integers, Sequences, FiniteSets, TLC

(***************************************************************************)
(* Bounds                                                                  *)
(***************************************************************************)
MaxInst == 2        \* number of Model instances a run may construct
MaxId == 2          \* largest rowid a run may insert
MaxOpens == 2       \* handles one SQLiteConnection may open in a run

Slots == 1..MaxInst
Pks == 1..MaxId

(***************************************************************************)
(* Python values held by field attributes.                                 *)
(***************************************************************************)
PyNone == "None"    \* None
Str7 == "'7'"       \* the str '7'  (text that is a well-formed number)
Int7 == "7"         \* the int 7

KwargValues == {Str7}           \* values a caller passes or assigns

None == -1          \* self.__id = None

(***************************************************************************)
(* Entity types (subclasses of Model): class name, FIELDS, and the methods *)
(* whose __name__ starts with NORMALIZATION_PREFIX, in dir() order.  A     *)
(* normalization method is code of the inheriting class: here it either    *)
(* returns or raises, and leaves the field attributes as they are.         *)
(***************************************************************************)
TypeKeys == {"Note", "Bad", "Empty"}

ClassName(k) ==
    CASE k = "Note" -> <<"N", "o", "t", "e">>
      [] k = "Bad" -> <<"B", "a", "d">>
      [] k = "Bads" -> <<"B", "a", "d", "s">>
      [] k = "Empty" -> <<"E", "m", "p", "t", "y">>

FIELDS(k) ==
    CASE k = "Note" -> << <<"title", "string">>, <<"created", "date">> >>
      [] k = "Bad" -> << <<"size", "int">> >>
      [] k = "Bads" -> << <<"size", "string">> >>
      [] k = "Empty" -> << >>

NormalizeMethods(k) ==
    CASE k = "Note" -> <<"__normalize__created", "__normalize__title">>
      [] k = "Bad" -> << >>
      [] k = "Bads" -> << >>
      [] k = "Empty" -> << >>

SeqToSet(s) == {s[i] : i \in DOMAIN s}

(***************************************************************************)
(* Model.__property__table_name                                            *)
(***************************************************************************)
LowerChar(c) ==
    CASE c = "N" -> "n"
      [] c = "B" -> "b"
      [] c = "E" -> "e"
      [] OTHER -> c

Lower(s) == [i \in DOMAIN s |-> LowerChar(s[i])]

TableName(k) ==
    LET model_name == Lower(ClassName(k))
    IN  <<"t", "b", "l", "_">> \o model_name
          \o (IF model_name[Len(model_name)] = "s" THEN << >> ELSE <<"s">>)

TableNames == {TableName(k) : k \in TypeKeys}

(***************************************************************************)
(* Model.__property__columns                                               *)
(***************************************************************************)
Columns(k) == [i \in DOMAIN FIELDS(k) |-> FIELDS(k)[i][1]]

(***************************************************************************)
(* Model.__method__validate_inheriting_class: "if not self.FIELDS"         *)
(***************************************************************************)
\* Mutant: the constructor does not validate the inheriting class.
ValidInheritingClassAlways(k) == TRUE

ValidInheritingClass(k) == FIELDS(k) # << >>

(***************************************************************************)
(* Model.__method__get_database_field_type                                 *)
(***************************************************************************)
\* Mutant: every field type is accepted.
ValidFieldTypeAlways(field_type) == TRUE

ValidFieldType(field_type) == field_type \in {"date", "string"}

DatabaseFieldType(field_type) ==
    IF field_type = "date" THEN "date" ELSE "text"

AllFieldTypesValid(k) == \A i \in DOMAIN FIELDS(k) : ValidFieldType(FIELDS(k)[i][2])

(***************************************************************************)
(* The column list of the CREATE TABLE statement of __method__create_table *)
(***************************************************************************)
CreateColumns(k) ==
    << <<"id", "integer primary key">> >>
      \o [i \in DOMAIN FIELDS(k) |->
            <<FIELDS(k)[i][1], DatabaseFieldType(FIELDS(k)[i][2])>>]

(***************************************************************************)
(* What SQLite stores when a value is bound into a column of the declared  *)
(* type: "text" has TEXT affinity (a number is stored as its text), "date" *)
(* has NUMERIC affinity (text that is a well-formed number is stored as    *)
(* the number).  A SELECT returns the stored value.                        *)
(***************************************************************************)
StoreValue(database_field_type, v) ==
    CASE database_field_type = "text" -> (IF v = Int7 THEN Str7 ELSE v)
      [] database_field_type = "date" -> (IF v = Str7 THEN Int7 ELSE v)
      [] OTHER -> v

(***************************************************************************)
(* Model.__method__normalize: every collected method is called once, in    *)
(* list order; an exception of a method is caught and logged.  raising is  *)
(* the set of methods that raise when called.  Result: the number of calls *)
(* of each method, the methods logged as failed, and whether an exception  *)
(* left the loop.                                                          *)
(***************************************************************************)
RECURSIVE NormalizeFrom(_, _, _, _)
NormalizeFrom(i, normalizations, raising, acc) ==
    IF i > Len(normalizations)
    THEN acc
    ELSE NormalizeFrom(i + 1, normalizations, raising,
            [acc EXCEPT !.calls[i] = @ + 1,
                        !.logged = IF normalizations[i] \in raising
                                   THEN @ \cup {normalizations[i]} ELSE @])

\* Mutant: the loop without its try/except; the first raising method ends it.
RECURSIVE NormalizePropagatingFrom(_, _, _, _)
NormalizePropagatingFrom(i, normalizations, raising, acc) ==
    IF i > Len(normalizations)
    THEN acc
    ELSE IF normalizations[i] \in raising
    THEN [acc EXCEPT !.calls[i] = @ + 1, !.raised = TRUE]
    ELSE NormalizePropagatingFrom(i + 1, normalizations, raising,
            [acc EXCEPT !.calls[i] = @ + 1])

NormalizePropagating(normalizations, raising, calls) ==
    NormalizePropagatingFrom(1, normalizations, raising,
                             [calls |-> calls, logged |-> {}, raised |-> FALSE])

Normalize(normalizations, raising, calls) ==
    NormalizeFrom(1, normalizations, raising,
                  [calls |-> calls, logged |-> {}, raised |-> FALSE])

(***************************************************************************)
(* Model.__method__collect_normalization_methods followed by               *)
(* Model.__method__normalize, as Model.__init__ runs them on a fresh       *)
(* instance.                                                               *)
(***************************************************************************)
\* Mutant: the constructor runs the normalization loop twice.
CollectAndNormalizeTwice(k, raising) ==
    Normalize(NormalizeMethods(k), raising,
              Normalize(NormalizeMethods(k), raising,
                        [i \in DOMAIN NormalizeMethods(k) |-> 0]).calls)

CollectAndNormalize(k, raising) ==
    Normalize(NormalizeMethods(k), raising,
              [i \in DOMAIN NormalizeMethods(k) |-> 0])

(***************************************************************************)
(* State                                                                   *)
(***************************************************************************)
(***************************************************************************)
(* SQLiteConnection.  _connection is 0 for None and otherwise the handle   *)
(* sqlite3.connect returned (handles are numbered per SQLiteConnection, in *)
(* the order they are opened); live is the set of handles opened by this   *)
(* object and not closed; opened counts its sqlite3.connect calls.         *)
(***************************************************************************)
NoHandle == 0

SQLiteConnection == [_connection |-> NoHandle, live |-> {}, opened |-> 0]

\* Mutant: the property connects on every use.
ConnectionAlwaysConnecting(c) ==
    [c EXCEPT !._connection = c.opened + 1,
              !.live = @ \cup {c.opened + 1},
              !.opened = @ + 1]

\* SQLiteConnection.connection (property)
Connection(c) ==
    IF c._connection = NoHandle
    THEN [c EXCEPT !._connection = c.opened + 1,
                   !.live = @ \cup {c.opened + 1},
                   !.opened = @ + 1]
    ELSE c

\* SQLiteConnection.close
Close(c) ==
    IF c._connection # NoHandle
    THEN [c EXCEPT !.live = @ \ {c._connection}, !._connection = NoHandle]
    ELSE c

VARIABLES
    catalog,    \* sqlite_master: the names of the tables that exist
    columns,    \* table name -> the column list it was created with
    rows,       \* table name -> (id -> the stored field values, in column order)
    ddl,        \* table name -> number of CREATE TABLE statements executed
    inst,       \* slot -> the Model instance constructed in it
    conn,       \* slot -> the SQLiteConnection of the instance in it
    last        \* the last call made and how it returned

vars == <<catalog, columns, rows, ddl, inst, conn, last>>

NoRows == [i \in {} |-> << >>]

Uninitialized ==
    [state |-> "uninit", k |-> "none", id |-> None, values |-> << >>,
     calls |-> << >>, last_insert_rowid |-> 0]

Call(op, e, k, pk, outcome, stage, logged, inserted) ==
    [op |-> op, e |-> e, k |-> k, pk |-> pk, outcome |-> outcome,
     stage |-> stage, logged |-> logged, inserted |-> inserted,
     returned |-> Uninitialized, opened |-> 0]

\* The call record of a call that opened n handles (sqlite3.connect calls).
Opened(call, n) == [call EXCEPT !.opened = n]

Init ==
    /\ catalog = {}
    /\ columns = [t \in TableNames |-> << >>]
    /\ rows = [t \in TableNames |-> NoRows]
    /\ ddl = [t \in TableNames |-> 0]
    /\ inst = [e \in Slots |-> Uninitialized]
    /\ conn = [e \in Slots |-> SQLiteConnection]
    /\ last = Call("none", 0, "none", None, "ok", "none", {}, FALSE)

(***************************************************************************)
(* Keyword arguments of a constructor call: a function from the keywords   *)
(* given to their values.                                                  *)
(***************************************************************************)
ID_KEYWORD == "pk"

KwargsNew(k) ==
    UNION {[S -> KwargValues] : S \in SUBSET SeqToSet(Columns(k))}

KwargsById == {[x \in {ID_KEYWORD} |-> pk] : pk \in Pks}

KwargsGet(kwargs, name) ==
    IF name \in DOMAIN kwargs THEN kwargs[name] ELSE PyNone

(***************************************************************************)
(* Model.__method__create_table / __method__create_table_if_necessary      *)
(***************************************************************************)
CreateTable(k) ==
    /\ catalog' = catalog \cup {TableName(k)}
    /\ columns' = [columns EXCEPT ![TableName(k)] = CreateColumns(k)]
    /\ ddl' = [ddl EXCEPT ![TableName(k)] = @ + 1]

\* Mutant: the catalog probe never finds the table.
TableFoundNever(k) == FALSE

TableFound(k) == TableName(k) \in catalog

CreateTableIfNecessary(k) ==
    IF TableFound(k)
    THEN UNCHANGED <<catalog, columns, ddl>>
    ELSE CreateTable(k)

(***************************************************************************)
(* Model.__method__populate_model_fields: the id and the field values the  *)
(* instance gets, and whether the record was found.                        *)
(***************************************************************************)
\* Mutant: the record's values are assigned to the columns in reverse order.
PopulateModelFieldsReversed(k, kwargs, table_rows) ==
    IF ID_KEYWORD \notin DOMAIN kwargs
    THEN [found |-> TRUE, id |-> None,
          values |-> [i \in DOMAIN Columns(k) |-> KwargsGet(kwargs, Columns(k)[i])]]
    ELSE IF kwargs[ID_KEYWORD] \notin DOMAIN table_rows
    THEN [found |-> FALSE, id |-> None, values |-> << >>]
    ELSE [found |-> TRUE, id |-> kwargs[ID_KEYWORD],
          values |-> [i \in DOMAIN Columns(k) |->
                        table_rows[kwargs[ID_KEYWORD]][Len(Columns(k)) + 1 - i]]]

PopulateModelFields(k, kwargs, table_rows) ==
    IF ID_KEYWORD \notin DOMAIN kwargs
    THEN [found |-> TRUE, id |-> None,
          values |-> [i \in DOMAIN Columns(k) |-> KwargsGet(kwargs, Columns(k)[i])]]
    ELSE IF kwargs[ID_KEYWORD] \notin DOMAIN table_rows
    THEN [found |-> FALSE, id |-> None, values |-> << >>]
    ELSE [found |-> TRUE, id |-> kwargs[ID_KEYWORD],
          values |-> [i \in DOMAIN Columns(k) |-> table_rows[kwargs[ID_KEYWORD]][i]]]

(***************************************************************************)
(* INSERT without an id into a table whose id column is "integer primary   *)
(* key": SQLite assigns one more than the largest id in the table, and 1   *)
(* in an empty table.  "ORDER BY id DESC LIMIT 1" selects the largest id.  *)
(***************************************************************************)
MaxOf(S) == CHOOSE x \in S : \A y \in S : y <= x

NewRowid(table_rows) ==
    IF DOMAIN table_rows = {} THEN 1 ELSE MaxOf(DOMAIN table_rows) + 1

\* Mutant: ORDER BY id ASC, the smallest id.
LatestIdAscending(table_rows) ==
    IF DOMAIN table_rows = {} THEN None
    ELSE CHOOSE x \in DOMAIN table_rows : \A y \in DOMAIN table_rows : x <= y

LatestId(table_rows) ==
    IF DOMAIN table_rows = {} THEN None ELSE MaxOf(DOMAIN table_rows)

(***************************************************************************)
(* The values a row holds after the instance's values are bound into the   *)
(* field columns of its table (Model.__property__values as parameters).    *)
(***************************************************************************)
StoreRow(table_columns, values) ==
    [i \in DOMAIN values |-> StoreValue(table_columns[i + 1][2], values[i])]

(***************************************************************************)
(* Truth value of an id: "if self.__id" (Model.save), "if not latest_id"   *)
(* (ModelCollection.get_the_most_recent)                                   *)
(***************************************************************************)
\* Mutant: save() never takes the update branch.
IdIsSetNever(id) == FALSE

IdIsSet(id) == id # None /\ id # 0

(***************************************************************************)
(* Model.__init__(context, **kwargs) in slot e for class k.                *)
(***************************************************************************)
Construct(op, e, k, kwargs, raising) ==
    LET pk == IF ID_KEYWORD \in DOMAIN kwargs THEN kwargs[ID_KEYWORD] ELSE None
        t == TableName(k)
    IN
    /\ inst[e].state = "uninit"
    /\ IF ~ValidInheritingClass(k)
       THEN /\ last' = Call(op, e, k, pk, "ConfigurationError", "validate", {}, FALSE)
            /\ UNCHANGED <<catalog, columns, rows, ddl, inst, conn>>
       ELSE IF ~TableFound(k) /\ ~AllFieldTypesValid(k)
       THEN /\ last' = Opened(Call(op, e, k, pk, "SchemaError", "create_table", {}, FALSE), 1)
            /\ UNCHANGED <<catalog, columns, rows, ddl, inst, conn>>
       ELSE /\ CreateTableIfNecessary(k)
            /\ UNCHANGED rows
            /\ LET populated == PopulateModelFields(k, kwargs, rows[t])
                   normalized == CollectAndNormalize(k, raising)
               IN  IF ~populated.found
                   THEN /\ last' = Opened(Call(op, e, k, pk, "RecordNotFound", "populate",
                                               {}, FALSE), 1)
                        /\ UNCHANGED <<inst, conn>>
                   ELSE IF normalized.raised
                   THEN /\ last' = Opened(Call(op, e, k, pk, "NormalizationFailure",
                                               "normalize", normalized.logged, FALSE), 1)
                        /\ UNCHANGED <<inst, conn>>
                   ELSE /\ inst' = [inst EXCEPT ![e] =
                                      [state |-> "ready", k |-> k, id |-> populated.id,
                                       values |-> populated.values,
                                       calls |-> normalized.calls,
                                       last_insert_rowid |-> 0]]
                        /\ conn' = [conn EXCEPT ![e] = Connection(SQLiteConnection)]
                        /\ last' = Opened(Call(op, e, k, pk, "ok", "done",
                                               normalized.logged, FALSE), 1)

ConstructNew(e, k) ==
    \E kwargs \in KwargsNew(k) : \E raising \in SUBSET SeqToSet(NormalizeMethods(k)) :
        Construct("construct_new", e, k, kwargs, raising)

ConstructById(e, k) ==
    \E kwargs \in KwargsById : \E raising \in SUBSET SeqToSet(NormalizeMethods(k)) :
        Construct("construct_by_id", e, k, kwargs, raising)

(***************************************************************************)
(* Assignment to a field attribute of a constructed instance by its user.  *)
(***************************************************************************)
SetAttr(e, i, v) ==
    /\ inst[e].state = "ready"
    /\ i \in DOMAIN inst[e].values
    /\ inst[e].values[i] # v
    /\ inst' = [inst EXCEPT ![e].values[i] = v]
    /\ last' = Call("setattr", e, inst[e].k, inst[e].id, "ok", "done", {}, FALSE)
    /\ UNCHANGED <<catalog, columns, rows, ddl, conn>>

(***************************************************************************)
(* Model.__method__update: UPDATE ... SET every column WHERE id = __id     *)
(***************************************************************************)
\* Mutant: the UPDATE has no WHERE clause.
UpdateEveryRow(table_columns, table_rows, id, values) ==
    [i \in DOMAIN table_rows |-> StoreRow(table_columns, values)]

Update(table_columns, table_rows, id, values) ==
    [i \in DOMAIN table_rows |->
        IF i = id THEN StoreRow(table_columns, values) ELSE table_rows[i]]

(***************************************************************************)
(* INSERT INTO table (columns) VALUES (values)                             *)
(***************************************************************************)
Insert(table_columns, table_rows, values) ==
    [i \in DOMAIN table_rows \cup {NewRowid(table_rows)} |->
        IF i = NewRowid(table_rows) THEN StoreRow(table_columns, values)
        ELSE table_rows[i]]

(***************************************************************************)
(* Model.save                                                              *)
(***************************************************************************)
Save(e) ==
    LET t == TableName(inst[e].k)
    IN
    /\ inst[e].state = "ready"
    /\ IF IdIsSet(inst[e].id)
       THEN /\ rows' = [rows EXCEPT ![t] = Update(columns[t], @, inst[e].id, inst[e].values)]
            /\ last' = Call("save", e, inst[e].k, inst[e].id, "ok", "done", {}, FALSE)
            /\ UNCHANGED inst
       ELSE /\ NewRowid(rows[t]) <= MaxId
            /\ rows' = [rows EXCEPT ![t] = Insert(columns[t], @, inst[e].values)]
            /\ inst' = [inst EXCEPT ![e].last_insert_rowid = NewRowid(rows[t]),
                                    ![e].id = NewRowid(rows[t])]
            /\ last' = Call("save", e, inst[e].k, NewRowid(rows[t]), "ok", "done", {}, TRUE)
    /\ conn' = [conn EXCEPT ![e] = Connection(@)]
    /\ UNCHANGED <<catalog, columns, ddl>>

(***************************************************************************)
(* Model.delete: DELETE FROM table WHERE id = __id.  With __id None the    *)
(* statement reads "WHERE id=None", which SQLite rejects (no such column). *)
(***************************************************************************)
\* Mutant: the DELETE matches no row.
DeleteFromNothing(table_rows, id) == table_rows

DeleteFrom(table_rows, id) ==
    [i \in DOMAIN table_rows \ {id} |-> table_rows[i]]

\* Mutant: SQLite accepts the statement, which then matches no row.
DeleteRejectedNever(id) == FALSE

\* "DELETE FROM t WHERE id=None" names a column None that no table has.
DeleteRejected(id) == id = None

Delete(e) ==
    LET t == TableName(inst[e].k)
    IN
    /\ inst[e].state = "ready"
    /\ IF DeleteRejected(inst[e].id)
       THEN /\ last' = Call("delete", e, inst[e].k, None, "StorageError", "execute", {}, FALSE)
            /\ UNCHANGED rows
       ELSE /\ rows' = [rows EXCEPT ![t] = DeleteFrom(@, inst[e].id)]
            /\ last' = Call("delete", e, inst[e].k, inst[e].id, "ok", "done", {}, FALSE)
    /\ conn' = [conn EXCEPT ![e] = Connection(@)]
    /\ UNCHANGED <<catalog, columns, ddl, inst>>

(***************************************************************************)
(* ModelCollection.get_the_most_recent for class k.  The template instance *)
(* is constructed without keywords and dropped.  The call record holds the *)
(* latest id found (pk) and the Model instance returned, which the caller  *)
(* reads and drops (Uninitialized stands for the return value None).  The  *)
(* template, the collection and the instance returned each open a handle.  *)
(***************************************************************************)
GetTheMostRecent(k) ==
    LET t == TableName(k)
        op == "get_the_most_recent"
    IN
    /\ IF ~ValidInheritingClass(k)
       THEN /\ last' = Call(op, 0, k, None, "ConfigurationError", "validate", {}, FALSE)
            /\ UNCHANGED <<catalog, columns, ddl>>
       ELSE IF ~TableFound(k) /\ ~AllFieldTypesValid(k)
       THEN /\ last' = Opened(Call(op, 0, k, None, "SchemaError", "create_table", {}, FALSE), 1)
            /\ UNCHANGED <<catalog, columns, ddl>>
       ELSE /\ CreateTableIfNecessary(k)
            /\ LET latest_id == LatestId(rows[t])
               IN  IF ~IdIsSet(latest_id)
                   THEN last' = Opened(Call(op, 0, k, None, "ok", "done", {}, FALSE), 2)
                   ELSE \E raising \in SUBSET SeqToSet(NormalizeMethods(k)) :
                        LET populated == PopulateModelFields(k,
                                            [x \in {ID_KEYWORD} |-> latest_id], rows[t])
                            normalized == CollectAndNormalize(k, raising)
                        IN  /\ populated.found
                            /\ ~normalized.raised
                            /\ last' = [Opened(Call(op, 0, k, latest_id, "ok", "done",
                                                    normalized.logged, FALSE), 3)
                                        EXCEPT !.returned =
                                          [state |-> "ready", k |-> k, id |-> populated.id,
                                           values |-> populated.values,
                                           calls |-> normalized.calls,
                                           last_insert_rowid |-> 0]]
    /\ UNCHANGED <<rows, inst, conn>>

Next ==
    \/ \E e \in Slots, k \in TypeKeys : ConstructNew(e, k)
    \/ \E e \in Slots, k \in TypeKeys : ConstructById(e, k)
    \/ \E e \in Slots : \E i \in DOMAIN inst[e].values, v \in KwargValues :
          SetAttr(e, i, v)
    \/ \E e \in Slots : Save(e)
    \/ \E e \in Slots : Delete(e)
    \/ \E k \in TypeKeys : GetTheMostRecent(k)

Spec == Init /\ [][Next]_vars

(***************************************************************************)
(* The same operations for two classes whose names give one table name:    *)
(* Bad (a field of type "int") and Bads (valid) both use tbl_bads.         *)
(***************************************************************************)
CollidingKeys == {"Bad", "Bads"}

NextColliding ==
    \/ \E e \in Slots, k \in CollidingKeys : ConstructNew(e, k)
    \/ \E e \in Slots, k \in CollidingKeys : ConstructById(e, k)
    \/ \E e \in Slots : \E i \in DOMAIN inst[e].values, v \in KwargValues :
          SetAttr(e, i, v)
    \/ \E e \in Slots : Save(e)
    \/ \E e \in Slots : Delete(e)
    \/ \E k \in CollidingKeys : GetTheMostRecent(k)

SpecColliding == Init /\ [][NextColliding]_vars

(***************************************************************************)
(* The SQLiteConnection of slot m used on its own: execute,                *)
(* execute_fetch_one_record, execute_fetch_single_value and close called   *)
(* in any order.  The statement is the caller's; fails says whether the    *)
(* backend raises on it, which leaves execute before its commit and close. *)
(***************************************************************************)
Execute(c, close, fails) ==
    IF fails THEN Connection(c)
    ELSE IF close THEN Close(Connection(c))
    ELSE Connection(c)

ConnCall(op, m, c, fails) ==
    /\ c.opened <= MaxOpens
    /\ conn' = [conn EXCEPT ![m] = c]
    /\ last' = Opened(Call(op, m, "none", None,
                           IF fails THEN "StorageError" ELSE "ok", "done", {}, FALSE),
                      c.opened - conn[m].opened)
    /\ UNCHANGED <<catalog, columns, rows, ddl, inst>>

ExecuteCall(m) ==
    \E many, commit, close, fails \in BOOLEAN :
        ConnCall("execute", m, Execute(conn[m], close, fails), fails)

ExecuteFetchOneRecord(m) ==
    \E fails \in BOOLEAN :
        ConnCall("execute_fetch_one_record", m, Execute(conn[m], FALSE, fails), fails)

ExecuteFetchSingleValue(m) ==
    \E fails \in BOOLEAN :
        ConnCall("execute_fetch_single_value", m, Execute(conn[m], FALSE, fails), fails)

CloseCall(m) == ConnCall("close", m, Close(conn[m]), FALSE)

NextConn ==
    \/ \E m \in Slots : ExecuteCall(m)
    \/ \E m \in Slots : ExecuteFetchOneRecord(m)
    \/ \E m \in Slots : ExecuteFetchSingleValue(m)
    \/ \E m \in Slots : CloseCall(m)

SpecConn == Init /\ [][NextConn]_vars

(***************************************************************************)
(* Constructions and saves of new instances by concurrent processes, one   *)
(* step per SQL statement.  A step is the statement together with the      *)
(* Python code that follows it up to the next statement of the same call.  *)
(* inst[e].state is the position of process e: "uninit" before the call,   *)
(* "absent" between the sqlite_master probe that found no table and the    *)
(* CREATE TABLE, "ready" between calls, "inserted" between the INSERT and  *)
(* "SELECT last_insert_rowid()".                                           *)
(***************************************************************************)
\* Mutant: CREATE TABLE of an existing table is accepted.
CreateRejectedNever(k) == FALSE

\* SQLite rejects CREATE TABLE of a table that exists (no IF NOT EXISTS).
CreateRejected(k) == TableName(k) \in catalog

\* Mutant: the id of the row inserted last on any connection.
LastInsertRowidOfAnyConnection(connection_rowid, table_rows) == LatestId(table_rows)

\* SELECT last_insert_rowid(): the id of the row inserted last on the
\* connection the statement runs on.
LastInsertRowid(connection_rowid, table_rows) == connection_rowid

\* __init__ after create_table_if_necessary, without an id keyword: no
\* further statement is executed.
FinishNew(op, e, k, values, raising) ==
    LET normalized == CollectAndNormalize(k, raising)
    IN  IF normalized.raised
        THEN /\ last' = Opened(Call(op, e, k, None, "NormalizationFailure",
                                    "normalize", normalized.logged, FALSE), 1)
             /\ inst' = [inst EXCEPT ![e] = Uninitialized]
             /\ UNCHANGED conn
        ELSE /\ inst' = [inst EXCEPT ![e] =
                           [state |-> "ready", k |-> k, id |-> None,
                            values |-> values, calls |-> normalized.calls,
                            last_insert_rowid |-> 0]]
             /\ conn' = [conn EXCEPT ![e] = Connection(SQLiteConnection)]
             /\ last' = Opened(Call(op, e, k, None, "ok", "done",
                                    normalized.logged, FALSE), 1)

\* __init__ up to and including the sqlite_master probe.
ProbeStmt(e, k) ==
    \E kwargs \in KwargsNew(k) : \E raising \in SUBSET SeqToSet(NormalizeMethods(k)) :
        /\ inst[e].state = "uninit"
        /\ UNCHANGED <<catalog, columns, rows, ddl>>
        /\ IF ~ValidInheritingClass(k)
           THEN /\ last' = Call("probe", e, k, None, "ConfigurationError", "validate",
                                {}, FALSE)
                /\ UNCHANGED <<inst, conn>>
           ELSE IF TableFound(k)
           THEN FinishNew("probe", e, k,
                          PopulateModelFields(k, kwargs, rows[TableName(k)]).values,
                          raising)
           ELSE IF ~AllFieldTypesValid(k)
           THEN /\ last' = Opened(Call("probe", e, k, None, "SchemaError",
                                       "create_table", {}, FALSE), 1)
                /\ UNCHANGED <<inst, conn>>
           ELSE /\ inst' = [inst EXCEPT ![e] =
                              [state |-> "absent", k |-> k, id |-> None,
                               values |-> PopulateModelFields(k, kwargs,
                                                              rows[TableName(k)]).values,
                               calls |-> << >>, last_insert_rowid |-> 0]]
                /\ last' = Opened(Call("probe", e, k, None, "ok", "create_table",
                                       {}, FALSE), 1)
                /\ UNCHANGED conn

\* The CREATE TABLE statement and the rest of __init__.
CreateStmt(e) ==
    /\ inst[e].state = "absent"
    /\ \E raising \in SUBSET SeqToSet(NormalizeMethods(inst[e].k)) :
        /\ UNCHANGED rows
        /\ IF CreateRejected(inst[e].k)
           THEN /\ last' = Opened(Call("create", e, inst[e].k, None, "StorageError",
                                       "create_table", {}, FALSE), 1)
                /\ inst' = [inst EXCEPT ![e] = Uninitialized]
                /\ UNCHANGED <<catalog, columns, ddl, conn>>
           ELSE /\ CreateTable(inst[e].k)
                /\ FinishNew("create", e, inst[e].k, inst[e].values, raising)

\* save() of an instance without id: the INSERT statement.
InsertStmt(e) ==
    LET t == TableName(inst[e].k)
    IN
    /\ inst[e].state = "ready"
    /\ ~IdIsSet(inst[e].id)
    /\ NewRowid(rows[t]) <= MaxId
    /\ rows' = [rows EXCEPT ![t] = Insert(columns[t], @, inst[e].values)]
    /\ inst' = [inst EXCEPT ![e].last_insert_rowid = NewRowid(rows[t]),
                            ![e].state = "inserted"]
    /\ conn' = [conn EXCEPT ![e] = Connection(@)]
    /\ last' = Call("insert", e, inst[e].k, NewRowid(rows[t]), "ok", "insert", {}, TRUE)
    /\ UNCHANGED <<catalog, columns, ddl>>

\* save() of an instance without id: SELECT last_insert_rowid() and the
\* assignment of __id.
ReadBackStmt(e) ==
    LET t == TableName(inst[e].k)
    IN
    /\ inst[e].state = "inserted"
    /\ inst' = [inst EXCEPT ![e].id = LastInsertRowid(inst[e].last_insert_rowid, rows[t]),
                            ![e].state = "ready"]
    /\ last' = Call("read_back", e, inst[e].k,
                    LastInsertRowid(inst[e].last_insert_rowid, rows[t]),
                    "ok", "done", {}, FALSE)
    /\ UNCHANGED <<catalog, columns, rows, ddl, conn>>

NextStmt ==
    \/ \E e \in Slots, k \in TypeKeys : ProbeStmt(e, k)
    \/ \E e \in Slots : CreateStmt(e)
    \/ \E e \in Slots : InsertStmt(e)
    \/ \E e \in Slots : ReadBackStmt(e)

SpecStmt == Init /\ [][NextStmt]_vars

(***************************************************************************)
(* Properties                                                              *)
(***************************************************************************)
Constructions == {"construct_new", "construct_by_id"}

\* C1: Round trip.  A save() of a New entity leaves it with a present id, and
\* a construct-by-id with that id that follows the save succeeds with every
\* field value equal to the value the saved entity held, in field order.
C1_RoundTrip ==
    [][ /\ (last'.op = "save" /\ last'.inserted) => inst'[last'.e].id # None
        /\ (/\ last.op = "save" /\ last.inserted
            /\ last'.op = "construct_by_id"
            /\ last'.k = last.k
            /\ last'.pk = inst[last.e].id)
           => /\ last'.outcome = "ok"
              /\ inst'[last'.e].values = inst[last.e].values ]_vars

\* C2: save() of an entity whose id is present is an update: the number of
\* rows of the table is unchanged, the id is unchanged, and the row with that
\* id holds the entity's in-memory value in every field column.
C2_SaveIsUpdate ==
    [][ \A e \in Slots :
          (inst[e].state = "ready" /\ inst[e].id # None
           /\ last'.op = "save" /\ last'.e = e)
          => LET t == TableName(inst[e].k)
             IN  /\ Cardinality(DOMAIN rows'[t]) = Cardinality(DOMAIN rows[t])
                 /\ inst'[e].id = inst[e].id
                 /\ inst[e].id \in DOMAIN rows'[t]
                 /\ rows'[t][inst[e].id] = inst'[e].values ]_vars

\* C3: delete() of an entity with a present id removes the row with that id,
\* and a construct-by-id with the same id that follows it fails with
\* RecordNotFound and yields no entity.
C3_DeleteThenLoadFails ==
    [][ /\ (last'.op = "delete" /\ last'.outcome = "ok")
           => last'.pk \notin DOMAIN rows'[TableName(last'.k)]
        /\ (/\ last.op = "delete" /\ last.outcome = "ok"
            /\ last'.op = "construct_by_id"
            /\ last'.k = last.k
            /\ last'.pk = last.pk)
           => /\ last'.outcome = "RecordNotFound"
              /\ inst'[last'.e].state = "uninit" ]_vars

\* C3 witness: a construct-by-id has failed with RecordNotFound for the id
\* that a constructed entity still holds, its row having been deleted.
C3_Witness ==
    /\ last.op = "construct_by_id"
    /\ last.outcome = "RecordNotFound"
    /\ \E e \in Slots : /\ inst[e].state = "ready"
                        /\ inst[e].k = last.k
                        /\ inst[e].id = last.pk

\* C4: CREATE TABLE is executed at most once per table, and only when the
\* catalog probe finds no table of that name; a construction that finds the
\* table issues no DDL, raises no schema or storage error and leaves the
\* catalog, the table's columns and its rows unchanged.
C4_EnsureTableIdempotent ==
    [][ /\ \A t \in TableNames :
             /\ ddl'[t] <= 1
             /\ ddl'[t] # ddl[t] => t \notin catalog
        /\ (/\ last'.op \in Constructions
            /\ TableName(last'.k) \in catalog)
           => /\ UNCHANGED <<catalog, columns, ddl, rows>>
              /\ last'.outcome \notin {"SchemaError", "StorageError"} ]_vars

\* C4 witness: a second entity of a type has been constructed after the
\* table of the type was created.
C4_Witness ==
    /\ last.op \in Constructions
    /\ last.outcome = "ok"
    /\ ddl[TableName(last.k)] = 1
    /\ \E e \in Slots : e # last.e /\ inst[e].state = "ready" /\ inst[e].k = last.k

\* C5: get_the_most_recent returns absent when the table holds no row, and
\* otherwise the Loaded entity whose id is the largest id in the table, with
\* the field values of that row.
C5_MostRecent ==
    (last.op = "get_the_most_recent" /\ last.outcome = "ok")
    => LET t == TableName(last.k)
           entity == last.returned
       IN  IF DOMAIN rows[t] = {}
           THEN entity = Uninitialized
           ELSE /\ entity.state = "ready"
                /\ entity.k = last.k
                /\ entity.id \in DOMAIN rows[t]
                /\ \A i \in DOMAIN rows[t] : i <= entity.id
                /\ entity.values = rows[t][entity.id]

\* C5 witness: with rows of id 1 and 2 present, the entity with id 2 has been
\* returned.
C5_Witness ==
    /\ last.op = "get_the_most_recent"
    /\ last.outcome = "ok"
    /\ DOMAIN rows[TableName(last.k)] = {1, 2}
    /\ last.returned.id = 2

\* C6: whichever normalization methods raise, a construction that reaches
\* normalization completes successfully, and every method, failing or not,
\* has been invoked.
C6_NormalizerIsolation ==
    (/\ last.op \in Constructions
     /\ last.stage \notin {"validate", "create_table", "populate"})
    => /\ last.outcome = "ok"
       /\ inst[last.e].state = "ready"
       /\ DOMAIN inst[last.e].calls = DOMAIN NormalizeMethods(last.k)
       /\ \A i \in DOMAIN inst[last.e].calls : inst[last.e].calls[i] >= 1

\* C6 witness: a construction has completed in which the first method of the
\* list raised and the second did not.
C6_Witness ==
    /\ last.op \in Constructions
    /\ last.outcome = "ok"
    /\ Len(NormalizeMethods(last.k)) = 2
    /\ last.logged = {NormalizeMethods(last.k)[1]}
    /\ inst[last.e].calls[2] = 1

C8_NormalizeOnSave ==
    [][ \A e \in Slots :
          (inst[e].state = "ready" /\ last'.op = "save" /\ last'.e = e)
          => \A i \in DOMAIN inst[e].calls :
                inst'[e].calls[i] = inst[e].calls[i] + 1 ]_vars

\* C9: the id of a New entity is absent until its first save(), the id of a
\* Loaded entity is the id it was loaded by, and an id that is present never
\* changes.
C9_IdImmutable ==
    [][ \A e \in Slots :
          /\ (inst[e].state = "ready" /\ inst[e].id # None)
             => inst'[e].id = inst[e].id
          /\ (inst[e].state = "ready" /\ inst'[e].id # inst[e].id)
             => last'.op = "save" /\ last'.e = e
          /\ (inst[e].state = "uninit" /\ inst'[e].state = "ready")
             => inst'[e].id = (IF last'.op = "construct_new" THEN None ELSE last'.pk) ]_vars

\* C9 witness: an entity that got its id from save() has been saved again.
C9_Witness ==
    /\ last.op = "save"
    /\ ~last.inserted
    /\ inst[last.e].last_insert_rowid = inst[last.e].id

\* C10: a construct-by-id that reaches the lookup succeeds exactly when the
\* table holds a row with the id: without one it fails with RecordNotFound
\* and yields no entity, with one the entity's id is the id given and each
\* field holds the value of its column in that row, in field order.
C10_ConstructById ==
    (/\ last.op = "construct_by_id"
     /\ last.stage \notin {"validate", "create_table"})
    => LET t == TableName(last.k)
       IN  IF last.pk \in DOMAIN rows[t]
           THEN /\ last.outcome = "ok"
                /\ inst[last.e].state = "ready"
                /\ inst[last.e].id = last.pk
                /\ \A i \in DOMAIN Columns(last.k) :
                      inst[last.e].values[i] = rows[t][last.pk][i]
           ELSE /\ last.outcome = "RecordNotFound"
                /\ inst[last.e].state = "uninit"

\* C10 witness: a construct-by-id has loaded a row whose two columns hold
\* different values.
C10_Witness ==
    /\ last.op = "construct_by_id"
    /\ last.outcome = "ok"
    /\ inst[last.e].values[1] # inst[last.e].values[2]

\* C11: delete() of a New entity that was never saved (id absent) does not
\* succeed and leaves every row of every table as it was.
C11_DeleteNeedsId ==
    [][ \A e \in Slots :
          (/\ inst[e].state = "ready" /\ inst[e].id = None
           /\ last'.op = "delete" /\ last'.e = e)
          => /\ last'.outcome # "ok"
             /\ rows' = rows ]_vars

\* C11 witness: delete() of an entity without an id has failed while its
\* table held a row.
C11_Witness ==
    /\ last.op = "delete"
    /\ last.outcome = "StorageError"
    /\ inst[last.e].id = None
    /\ DOMAIN rows[TableName(last.k)] # {}

\* C12: a save() that follows the delete() of the same instance fails: it
\* does not complete successfully and it changes no row.
C12_SaveAfterDeleteFails ==
    [][ (/\ last.op = "delete" /\ last.outcome = "ok"
         /\ last'.op = "save" /\ last'.e = last.e)
        => /\ last'.outcome # "ok"
           /\ rows' = rows ]_vars

C17_WriteFrame ==
    [][ \A t \in TableNames :
          /\ \A i \in DOMAIN rows[t] :
                (i \notin DOMAIN rows'[t] \/ rows'[t][i] # rows[t][i])
                => /\ last'.op \in {"save", "delete"}
                   /\ last'.outcome = "ok"
                   /\ t = TableName(last'.k)
                   /\ i = inst[last'.e].id
          /\ \A i \in DOMAIN rows'[t] \ DOMAIN rows[t] :
                /\ last'.op = "save"
                /\ t = TableName(last'.k)
                /\ inst[last'.e].id = None
                /\ i = inst'[last'.e].id
          /\ Cardinality(DOMAIN rows'[t] \ DOMAIN rows[t]) <= 1 ]_vars

\* C17 witness: an entity has been saved by an UPDATE while its table held
\* another row with other values.
C17_Witness ==
    /\ last.op = "save"
    /\ ~last.inserted
    /\ LET t == TableName(last.k)
       IN  /\ last.pk \in DOMAIN rows[t]
           /\ \E j \in DOMAIN rows[t] : j # last.pk /\ rows[t][j] # rows[t][last.pk]

\* C19: two entities of one type that each got their id from their own
\* save() never hold the same id.
C19_IdsNeverReused ==
    \A e, f \in Slots :
        (/\ e # f
         /\ inst[e].state = "ready" /\ inst[f].state = "ready"
         /\ inst[e].k = inst[f].k
         /\ inst[e].last_insert_rowid # 0 /\ inst[f].last_insert_rowid # 0)
        => inst[e].id # inst[f].id

Uses == {"execute", "execute_fetch_one_record", "execute_fetch_single_value"}

\* C16: after any sequence of execute, fetch and close calls a connection
\* manager owns at most one handle, the one in _connection; a handle is
\* opened only by a use while none is held; close() releases the handle, and
\* with no handle held it changes nothing and raises nothing; a use after
\* close() opens a fresh handle and fails only if the statement fails.
C16_HandleLifecycle ==
    [][ \A m \in Slots :
          /\ Cardinality(conn'[m].live) <= 1
          /\ conn'[m].live = IF conn'[m]._connection = NoHandle THEN {}
                             ELSE {conn'[m]._connection}
          /\ conn'[m].opened # conn[m].opened
             => /\ conn[m]._connection = NoHandle
                /\ last'.op \in Uses /\ last'.e = m
                /\ conn'[m].opened = conn[m].opened + 1
          /\ (last'.op = "close" /\ last'.e = m)
             => /\ last'.outcome = "ok"
                /\ conn'[m]._connection = NoHandle
                /\ conn[m]._connection = NoHandle => conn'[m] = conn[m]
          /\ (last'.op \in Uses /\ last'.e = m /\ conn[m]._connection = NoHandle)
             => /\ conn'[m].opened = conn[m].opened + 1
                /\ conn'[m].live \cap (1..conn[m].opened) = {}
                /\ last'.outcome = "StorageError"
                   => conn'[m]._connection = conn'[m].opened ]_vars

\* C16 witness: a use after close() has opened a second handle, the only
\* one held.
C16_Witness ==
    /\ last.op \in Uses
    /\ last.outcome = "ok"
    /\ last.opened = 1
    /\ conn[last.e].opened = 2
    /\ conn[last.e].live = {2}

UnrecognizedFieldType(k) ==
    \E i \in DOMAIN FIELDS(k) : FIELDS(k)[i][2] \notin {"string", "date"}

\* C14 as stated: every construction of a class with a field of a type other
\* than string or date ends in a schema error, whether or not the table
\* exists, and creates or alters no table.
C14_SchemaErrorInEveryCatalogState ==
    [][ (last'.op \in Constructions /\ FIELDS(last'.k) # << >>
         /\ UnrecognizedFieldType(last'.k))
        => /\ last'.outcome = "SchemaError"
           /\ UNCHANGED <<catalog, columns, ddl>> ]_vars

\* C14 amended: a construction of a class with a field of a type other than
\* string or date ends in a schema error exactly when the catalog probe
\* finds no table of its name; when the table exists the field types are
\* not examined and no schema error is raised.  In both cases no table is
\* created or altered.
C14_SchemaErrorWhenTableAbsent ==
    [][ (last'.op \in Constructions /\ FIELDS(last'.k) # << >>
         /\ UnrecognizedFieldType(last'.k))
        => /\ (last'.outcome = "SchemaError") <=> (TableName(last'.k) \notin catalog)
           /\ last'.outcome = "SchemaError"
              => last'.stage = "create_table" /\ UNCHANGED <<rows, inst>>
           /\ UNCHANGED <<catalog, columns, ddl>> ]_vars

\* C14 witness: the construction of Bad raised the schema error while no
\* table tbl_bads existed, and none was created.
C14_Witness ==
    /\ last.op \in Constructions
    /\ last.k = "Bad"
    /\ last.outcome = "SchemaError"
    /\ TableName("Bad") \notin catalog
    /\ ddl[TableName("Bad")] = 0

\* C15: the probe and the CREATE TABLE of a first-use construction are two
\* statements.  When a process issues its CREATE TABLE after another
\* process has created the table since its probe, the statement is
\* rejected: the construction ends with the storage error, no instance is
\* produced and the table created first is left as it is.
C15_SecondCreateFails ==
    [][ \A e \in Slots :
          (inst[e].state = "absent" /\ TableName(inst[e].k) \in catalog
           /\ last'.op = "create" /\ last'.e = e)
          => /\ last'.outcome = "StorageError"
             /\ last'.stage = "create_table"
             /\ inst'[e] = Uninitialized
             /\ UNCHANGED <<catalog, columns, rows, ddl>> ]_vars

\* C15 witness: both processes probed while the table was absent, one
\* created it, and the CREATE TABLE of the other has failed.
C15_Witness ==
    /\ last.op = "create"
    /\ last.outcome = "StorageError"
    /\ last.k = "Note"
    /\ ddl[TableName("Note")] = 1
    /\ \E e \in Slots : e # last.e /\ inst[e].state = "ready" /\ inst[e].k = "Note"

\* C18: with the INSERT and the id read-back of concurrent saves of new
\* instances interleaved, an instance that has an id has the id of the row
\* its own INSERT created, that row holds the instance's values, and no two
\* instances of a table have the same id.
C18_OwnRowId ==
    \A e \in Slots :
        inst[e].id # None
        => /\ inst[e].id = inst[e].last_insert_rowid
           /\ inst[e].id \in DOMAIN rows[TableName(inst[e].k)]
           /\ rows[TableName(inst[e].k)][inst[e].id]
                = StoreRow(columns[TableName(inst[e].k)], inst[e].values)
           /\ \A f \in Slots \ {e} :
                 inst[f].k = inst[e].k => inst[f].id # inst[e].id

\* C18 witness: process 1 inserted row 1, process 2 then inserted row 2,
\* and process 1 has read back id 1 before process 2 reads its id.
C18_Witness ==
    /\ last.op = "read_back"
    /\ last.e = 1
    /\ inst[1].id = 1
    /\ inst[2].state = "inserted"
    /\ inst[2].k = inst[1].k
    /\ inst[2].last_insert_rowid = 2

====
